---- MODULE Spec2Model ----
(***************************************************************************)
(* Product CRUD API: the validation-and-persistence request pipeline.      *)
(*                                                                         *)
(* Handlers are async functions; an action of the model is the part of a   *)
(* handler that runs between two suspension points on the store            *)
(* (mongoose.connect, Product.find, save, findById...).                    *)
(***************************************************************************)
EXTENDS Integers, Sequences, FiniteSets, TLC

(***************************************************************************)
(* Bounds of the model.                                                    *)
(***************************************************************************)
MaxReqs == 3       \* requests received in one behaviour

\* The requests the runtime handles concurrently: two slots.
Procs == {1, 2}

(***************************************************************************)
(* JSON values of a request body's fields.                                 *)
(***************************************************************************)
Undef == [t |-> "undef", s |-> "", n |-> 0]
Str(x) == [t |-> "str", s |-> x, n |-> 0]
Num(k) == [t |-> "num", s |-> "", n |-> k]

Fields == <<"title", "description", "category", "imageUrl", "price", "creator">>
FieldSet == {Fields[i] : i \in 1..Len(Fields)}

\* Strings the model's requests are built from.
UrlStrings == {"https://example.com/i.png", "https://example.com/j.png"}
CategoryEnum == {"men", "women", "electronics", "jewelry"}

\* new URL(s) succeeds (zod's url check)
IsUrl(s) == s \in UrlStrings

Issue(f, c, m) == [field |-> f, code |-> c, message |-> m]

\* z.string().min(1, msg)
CheckStringMin1(f, v, msg) ==
  IF v.t = "undef" THEN <<Issue(f, "invalid_type", "Required")>>
  ELSE IF v.t # "str" THEN <<Issue(f, "invalid_type", "Expected string")>>
  ELSE IF v.s = "" THEN <<Issue(f, "too_small", msg)>>
  ELSE <<>>

\* z.enum(["men", "women", "electronics", "jewelry"])
CheckCategory(v) ==
  IF v.t = "undef" THEN <<Issue("category", "invalid_type", "Required")>>
  ELSE IF v.t # "str" THEN <<Issue("category", "invalid_type", "Expected enum")>>
  ELSE IF v.s \notin CategoryEnum
       THEN <<Issue("category", "invalid_enum_value", "Invalid enum value")>>
  ELSE <<>>

\* z.string().url().min(1, "Image URL is required"): every check of a string
\* schema runs, each failing check adds its own issue.
CheckImageUrl(v) ==
  IF v.t = "undef" THEN <<Issue("imageUrl", "invalid_type", "Required")>>
  ELSE IF v.t # "str" THEN <<Issue("imageUrl", "invalid_type", "Expected string")>>
  ELSE (IF IsUrl(v.s) THEN <<>>
        ELSE <<Issue("imageUrl", "invalid_string", "Invalid url")>>)
       \o (IF v.s = "" THEN <<Issue("imageUrl", "too_small", "Image URL is required")>>
           ELSE <<>>)

\* CheckPrice with the minimum off by one: z.number().min(0)
CheckPrice_Min0(v) ==
  IF v.t = "undef" THEN <<Issue("price", "invalid_type", "Required")>>
  ELSE IF v.t # "num" THEN <<Issue("price", "invalid_type", "Expected number")>>
  ELSE IF v.n < 0 THEN <<Issue("price", "too_small", "Price is required")>>
  ELSE <<>>

\* z.number().min(1, "Price is required")
CheckPrice(v) ==
  IF v.t = "undef" THEN <<Issue("price", "invalid_type", "Required")>>
  ELSE IF v.t # "num" THEN <<Issue("price", "invalid_type", "Expected number")>>
  ELSE IF v.n < 1 THEN <<Issue("price", "too_small", "Price is required")>>
  ELSE <<>>

NoFields == [f \in FieldSet |-> Undef]

\* A request body: JSON text that does not parse, a JSON value that is not an
\* object, or an object with (some of) the six keys.
Unparseable == [kind |-> "unparseable", f |-> NoFields]
NonObject == [kind |-> "nonobject", f |-> NoFields]
Obj(fs) == [kind |-> "object", f |-> fs]

\* productSchema.safeParse(body).error.issues, in the order of the schema's keys
productSchemaIssues(body) ==
  IF body.kind # "object"
  THEN <<Issue("", "invalid_type", "Expected object")>>
  ELSE CheckStringMin1("title", body.f["title"], "Title is required")
       \o CheckStringMin1("description", body.f["description"], "Description is required")
       \o CheckCategory(body.f["category"])
       \o CheckImageUrl(body.f["imageUrl"])
       \o CheckPrice(body.f["price"])
       \o CheckStringMin1("creator", body.f["creator"], "Creator is required")

\* productSchema.safeParse(body): success, and the data (the six keys) or the issues
safeParse(body) ==
  LET is == productSchemaIssues(body)
  IN [success |-> is = <<>>, data |-> body.f, issues |-> is]


(***************************************************************************)
(* Identifiers.  Oid lists the ObjectIds the driver generates, in order;   *)
(* they are the well-formed identifier strings of the model.               *)
(***************************************************************************)
Oid == <<"650000000000000000000001", "650000000000000000000002",
         "650000000000000000000003", "650000000000000000000004",
         "650000000000000000000005">>
ObjectIds == {Oid[k] : k \in 1..Len(Oid)}

\* mongoose.Types.ObjectId.isValid(id)
isValid(id) == id \in ObjectIds

\* Path parameters of the requests: empty, malformed, and two well-formed ones.
PathIds == {"", "not-an-id", Oid[1], Oid[2]}

(***************************************************************************)
(* Errors and their serialisation.                                         *)
(***************************************************************************)
Err(n, m, c) == [name |-> n, message |-> m, code |-> c]

\* database.ts: the error connectToDB throws, whatever made mongoose.connect reject
ConnectError == Err("Error", "Failed to connect to mongoDb", "")
\* what a rejected store operation throws
StoreErrorCodes == {"ECONNRESET", "E11600"}
StoreError(c) == Err("MongoServerError", "store operation failed", c)
\* what req.json() throws on a body that is not JSON
JsonSyntaxError == Err("SyntaxError", "Unexpected token", "")

\* JSON.stringify(error): the error's own enumerable properties.  message and
\* stack of a plain Error are not enumerable; a driver error carries its code.
JsonOfError(e) == IF e.name = "MongoServerError" THEN {<<"code", e.code>>} ELSE {}

(***************************************************************************)
(* Requests and responses.                                                 *)
(***************************************************************************)
Handlers == {"GET_products", "POST_products", "GET_dashboard",
             "GET_id", "PUT_id", "DELETE_id"}

Request(h, id, body, creator) == [h |-> h, id |-> id, body |-> body, creator |-> creator]
NoBody == [kind |-> "none", f |-> NoFields]
NoRequest == Request("none", "", NoBody, Undef)

\* NextResponse.json(body, { status })
Response(status, body) == [status |-> status, body |-> body]
NoResponse == Response(0, [none |-> TRUE])

\* Catch with the test of POST's catch block inverted, so that a store or
\* connection error takes the 400 branch.
Catch_PostInverted(h, e) ==
  IF h = "POST_products" /\ e.name # "ZodError"
  THEN Response(400, [error |-> e.message])
  ELSE Response(500, [error |-> "Internal server error"])

\* The catch block of each handler.
Catch(h, e) ==
  CASE h = "GET_products" ->
         Response(500, [error |-> "Failed to retrieve products", details |-> JsonOfError(e)])
    [] h = "POST_products" ->
         IF e.name = "ZodError"
         THEN Response(400, [error |-> e.message])
         ELSE Response(500, [error |-> "Failed to create product"])
    [] h = "GET_dashboard" -> Response(500, [error |-> "Failed to fetch products"])
    [] h = "GET_id" -> Response(500, [error |-> "Failed to fetch product"])
    [] h = "PUT_id" -> Response(500, [error |-> "Internal server error"])
    [] h = "DELETE_id" -> Response(500, [error |-> "Internal server error"])

\* A line of the server log.
LogEntry(src, e) == [src |-> src, text |-> e.message, code |-> e.code]

(***************************************************************************)
(* The store: the products collection.                                     *)
(***************************************************************************)
\* The six user-supplied paths of ProductSchema.
Product(title, description, category, imageUrl, price, creator) ==
  [f \in FieldSet |->
     CASE f = "title" -> title [] f = "description" -> description
       [] f = "category" -> category [] f = "imageUrl" -> imageUrl
       [] f = "price" -> price [] f = "creator" -> creator]

\* A document of the collection; timestamps: true adds createdAt and updatedAt.
Doc(id, data, created, updated) ==
  [id |-> id, f |-> data, createdAt |-> created, updatedAt |-> updated]
NoDoc == Doc("", NoFields, 0, 0)

\* find with the query dropped: Product.find()
find_NoQuery(coll, creator) == coll

\* Product.find(query): query is {} (creator null or "") or { creator }
find(coll, creator) ==
  IF creator.t = "str" /\ creator.s # ""
  THEN {d \in coll : d.f["creator"] = creator}
  ELSE coll

\* Product.findById(id): the document or null
findById(coll, id) ==
  IF \E d \in coll : d.id = id THEN CHOOSE d \in coll : d.id = id ELSE NoDoc

\* findByIdAndUpdate(id, data, { new: true }): $set of the keys of data, and
\* of updatedAt (timestamps: true)
updated(d, data, t) ==
  Doc(d.id, [k \in FieldSet |-> IF data[k].t # "undef" THEN data[k] ELSE d.f[k]],
      d.createdAt, t)

\* findByIdAndUpdate with the filter lost: updateMany({}, data)
findByIdAndUpdate_Many(coll, id, data, t) == {updated(d, data, t) : d \in coll}

findByIdAndUpdate(coll, id, data, t) ==
  {IF d.id = id THEN updated(d, data, t) ELSE d : d \in coll}

\* findByIdAndDelete as a soft delete: the document stays in the collection
findByIdAndDelete_Soft(coll, id) == coll

\* findByIdAndDelete(id)
findByIdAndDelete(coll, id) == {d \in coll : d.id # id}

(***************************************************************************)
(* State.                                                                  *)
(***************************************************************************)
VARIABLES
  pc,          \* per request slot: "idle", "connect" (awaiting mongoose.connect),
               \* "store" (awaiting the store operation), "done" (responded)
  req,         \* the request the slot is handling, or handled last
  resp,        \* its response, NoResponse while it is being handled
  bodyRead,    \* whether req.json() was called for it
  newProduct,  \* POST: the document built by new Product(...), awaiting save()
  products,    \* the collection
  nextId,      \* index in Oid of the next ObjectId the driver generates
  now,         \* the clock the timestamps are read from
  nreq,        \* requests received so far
  log,         \* per slot: what console.log / console.error wrote for its request
  deleted,     \* identifiers for which a DELETE has returned 200
  startedAfter \* per slot: the value of deleted when its request started

vars == <<pc, req, resp, bodyRead, newProduct, products, nextId, now, nreq, log,
          deleted, startedAfter>>

Init ==
  /\ pc = [p \in Procs |-> "idle"]
  /\ req = [p \in Procs |-> NoRequest]
  /\ resp = [p \in Procs |-> NoResponse]
  /\ bodyRead = [p \in Procs |-> FALSE]
  /\ newProduct = [p \in Procs |-> NoDoc]
  /\ products = {}
  /\ nextId = 1
  /\ now = 0
  /\ nreq = 0
  /\ log = [p \in Procs |-> {}]
  /\ deleted = {}
  /\ startedAfter = [p \in Procs |-> {}]

\* A request arrives at slot p.
Receive(p, r, read) ==
  /\ pc[p] = "idle"
  /\ req' = [req EXCEPT ![p] = r]
  /\ bodyRead' = [bodyRead EXCEPT ![p] = read]
  /\ newProduct' = [newProduct EXCEPT ![p] = NoDoc]
  /\ startedAfter' = [startedAfter EXCEPT ![p] = deleted]
  /\ nreq' = nreq + 1

\* The handler returns a response.
Return(p, r) ==
  /\ resp' = [resp EXCEPT ![p] = r]
  /\ pc' = [pc EXCEPT ![p] = "done"]

\* The handler suspends on an awaited promise.
Await(p, at) ==
  /\ resp' = [resp EXCEPT ![p] = NoResponse]
  /\ pc' = [pc EXCEPT ![p] = at]

\* The handler returns a response without logging.
Reply(p, r) == Return(p, r) /\ UNCHANGED log

\* console.log / console.error while slot p's request is handled
Log(p, entries) == log' = [log EXCEPT ![p] = @ \cup entries]

\* An exception reaches the handler's catch block: console.error, then the
\* catch block's response.
Throw(p, h, e) ==
  /\ Log(p, {LogEntry(h, e)})
  /\ Return(p, Catch(h, e))

\* database.ts, connectToDB: mongoose.connect(...) is called and awaited.
connectToDB(p) == Await(p, "connect") /\ UNCHANGED log

\* connectToDB, mongoose.connect resolved: console.log, back to the handler.
connected(p) ==
  /\ pc[p] = "connect"
  /\ Log(p, {LogEntry("connectToDB", Err("", "connected to MongoDB", ""))})

\* connectToDB, mongoose.connect rejected with a driver error of code c:
\* console.error of it, then throw new Error("Failed to connect to mongoDb"),
\* which the calling handler catches.
ConnectFail(p, c) ==
  /\ pc[p] = "connect"
  /\ Log(p, {LogEntry("connectToDB", StoreError(c)), LogEntry(req[p].h, ConnectError)})
  /\ Return(p, Catch(req[p].h, ConnectError))
  /\ UNCHANGED <<req, bodyRead, newProduct, products, nextId, now, nreq, deleted,
                 startedAfter>>

\* The awaited store operation rejects with a driver error of code c.
StoreFail(p, c) ==
  /\ pc[p] = "store"
  /\ Throw(p, req[p].h, StoreError(c))
  /\ UNCHANGED <<req, bodyRead, newProduct, products, nextId, now, nreq, deleted,
                 startedAfter>>

(***************************************************************************)
(* GET /products                                                           *)
(***************************************************************************)
GET_products(p) ==
  /\ Receive(p, Request("GET_products", "", NoBody, Undef), FALSE)
  /\ connectToDB(p)
  /\ UNCHANGED <<products, nextId, now, deleted>>

GET_products_find(p) ==
  /\ req[p].h = "GET_products"
  /\ connected(p)
  /\ pc' = [pc EXCEPT ![p] = "store"]
  /\ UNCHANGED <<req, resp, bodyRead, newProduct, products, nextId, now, nreq, deleted,
                 startedAfter>>

GET_products_return(p) ==
  /\ req[p].h = "GET_products"
  /\ pc[p] = "store"
  /\ Reply(p, Response(200, [products |-> find(products, Undef)]))
  /\ UNCHANGED <<req, bodyRead, newProduct, products, nextId, now, nreq, deleted,
                 startedAfter>>

(***************************************************************************)
(* POST /products                                                          *)
(***************************************************************************)
\* issues.map(issue => ({ field: issue.path[0], message: issue.message }))
FieldErrors(is) == [i \in 1..Len(is) |-> [field |-> is[i].field, message |-> is[i].message]]

POST_products(p, body) ==
  /\ Receive(p, Request("POST_products", "", body, Undef), TRUE)
  /\ IF body.kind = "unparseable"
     THEN Throw(p, "POST_products", JsonSyntaxError)
     ELSE LET parsedBody == safeParse(body)
          IN IF ~parsedBody.success
             THEN Reply(p, Response(400, [errors |-> FieldErrors(parsedBody.issues)]))
             ELSE connectToDB(p)
  /\ UNCHANGED <<products, nextId, now, deleted>>

\* NewProduct with two properties crossed in the constructor call
NewProduct_Crossed(id, data) ==
  Doc(id, Product(data["description"], data["title"], data["category"],
                  data["imageUrl"], data["price"], data["creator"]), 0, 0)

\* const { title, description, category, imageUrl, creator, price } = parsedBody.data;
\* new Product({ title, description, category, imageUrl, creator, price })
NewProduct(id, data) ==
  Doc(id, Product(data["title"], data["description"], data["category"],
                  data["imageUrl"], data["price"], data["creator"]), 0, 0)

\* new Product({ title, ... }) takes the next ObjectId; save() is awaited
POST_products_save(p) ==
  /\ req[p].h = "POST_products"
  /\ connected(p)
  /\ nextId <= Len(Oid)
  /\ newProduct' = [newProduct EXCEPT ![p] = NewProduct(Oid[nextId], safeParse(req[p].body).data)]
  /\ nextId' = nextId + 1
  /\ pc' = [pc EXCEPT ![p] = "store"]
  /\ UNCHANGED <<req, resp, bodyRead, products, now, nreq, deleted, startedAfter>>

\* save() inserts the document with its timestamps
POST_products_return(p) ==
  /\ req[p].h = "POST_products"
  /\ pc[p] = "store"
  /\ now' = now + 1
  /\ products' = products \cup {Doc(newProduct[p].id, newProduct[p].f, now', now')}
  /\ Reply(p, Response(201, [text |-> "product has been created"]))
  /\ UNCHANGED <<req, bodyRead, newProduct, nextId, nreq, deleted, startedAfter>>

(***************************************************************************)
(* GET /products/dashboard?creator=                                        *)
(***************************************************************************)
\* creator is searchParams.get("creator"): null (Undef) or a string
GET_dashboard(p, creator) ==
  /\ Receive(p, Request("GET_dashboard", "", NoBody, creator), FALSE)
  /\ IF creator = Str("")
     THEN Reply(p, Response(400, [error |-> "Creator is required"]))
     ELSE connectToDB(p)
  /\ UNCHANGED <<products, nextId, now, deleted>>

GET_dashboard_find(p) ==
  /\ req[p].h = "GET_dashboard"
  /\ connected(p)
  /\ pc' = [pc EXCEPT ![p] = "store"]
  /\ UNCHANGED <<req, resp, bodyRead, newProduct, products, nextId, now, nreq, deleted,
                 startedAfter>>

GET_dashboard_return(p) ==
  /\ req[p].h = "GET_dashboard"
  /\ pc[p] = "store"
  /\ Reply(p, Response(200, [products |-> find(products, req[p].creator)]))
  /\ UNCHANGED <<req, bodyRead, newProduct, products, nextId, now, nreq, deleted,
                 startedAfter>>

(***************************************************************************)
(* GET /products/{id}                                                      *)
(***************************************************************************)
GET_id(p, id) ==
  /\ Receive(p, Request("GET_id", id, NoBody, Undef), FALSE)
  /\ connectToDB(p)
  /\ UNCHANGED <<products, nextId, now, deleted>>

GET_id_findById(p) ==
  /\ req[p].h = "GET_id"
  /\ connected(p)
  /\ IF ~isValid(req[p].id)
     THEN Return(p, Response(400, [error |-> "Invalid ID format"]))
     ELSE pc' = [pc EXCEPT ![p] = "store"] /\ UNCHANGED resp
  /\ UNCHANGED <<req, bodyRead, newProduct, products, nextId, now, nreq, deleted,
                 startedAfter>>

GET_id_return(p) ==
  /\ req[p].h = "GET_id"
  /\ pc[p] = "store"
  /\ LET product == findById(products, req[p].id)
     IN IF product = NoDoc
        THEN Reply(p, Response(404, [text |-> "Product not found"]))
        ELSE Reply(p, Response(200, [product |-> product]))
  /\ UNCHANGED <<req, bodyRead, newProduct, products, nextId, now, nreq, deleted,
                 startedAfter>>

(***************************************************************************)
(* PUT /products/{id}                                                      *)
(***************************************************************************)
\* PUT_id with the body read and validated before the identifier is checked
PUT_id_BodyFirst(p, id, body) ==
  /\ Receive(p, Request("PUT_id", id, body, Undef), TRUE)
  /\ IF body.kind = "unparseable"
     THEN Throw(p, "PUT_id", JsonSyntaxError)
     ELSE LET parseResult == safeParse(body)
          IN IF ~parseResult.success
             THEN Reply(p, Response(400, [error |-> parseResult.issues]))
             ELSE IF ~isValid(id)
             THEN Reply(p, Response(400, [error |-> "Invalid ID format"]))
             ELSE connectToDB(p)
  /\ UNCHANGED <<products, nextId, now, deleted>>

PUT_id(p, id, body) ==
  /\ Receive(p, Request("PUT_id", id, body, Undef), isValid(id))
  /\ IF ~isValid(id)
     THEN Reply(p, Response(400, [error |-> "Invalid ID format"]))
     ELSE IF body.kind = "unparseable"
     THEN Throw(p, "PUT_id", JsonSyntaxError)
     ELSE LET parseResult == safeParse(body)
          IN IF ~parseResult.success
             THEN Reply(p, Response(400, [error |-> parseResult.issues]))
             ELSE connectToDB(p)
  /\ UNCHANGED <<products, nextId, now, deleted>>

PUT_id_findByIdAndUpdate(p) ==
  /\ req[p].h = "PUT_id"
  /\ connected(p)
  /\ pc' = [pc EXCEPT ![p] = "store"]
  /\ UNCHANGED <<req, resp, bodyRead, newProduct, products, nextId, now, nreq, deleted,
                 startedAfter>>

\* the body of the 200 response is { message, product: Product }; Product is
\* the model class, which JSON.stringify leaves out
PUT_id_return(p) ==
  /\ req[p].h = "PUT_id"
  /\ pc[p] = "store"
  /\ IF findById(products, req[p].id) = NoDoc
     THEN /\ Reply(p, Response(404, [error |-> "Product not found"]))
          /\ UNCHANGED <<products, now>>
     ELSE /\ now' = now + 1
          /\ products' = findByIdAndUpdate(products, req[p].id,
                                           safeParse(req[p].body).data, now')
          /\ Reply(p, Response(200, [message |-> "Product updated successfully"]))
  /\ UNCHANGED <<req, bodyRead, newProduct, nextId, nreq, deleted, startedAfter>>

(***************************************************************************)
(* DELETE /products/{id}                                                   *)
(***************************************************************************)
DELETE_id(p, id) ==
  /\ Receive(p, Request("DELETE_id", id, NoBody, Undef), FALSE)
  /\ IF id = ""
     THEN Reply(p, Response(400, [error |-> "ID is required"]))
     ELSE connectToDB(p)
  /\ UNCHANGED <<products, nextId, now, deleted>>

DELETE_id_findByIdAndDelete(p) ==
  /\ req[p].h = "DELETE_id"
  /\ connected(p)
  /\ IF ~isValid(req[p].id)
     THEN Return(p, Response(400, [error |-> "Invalid ID format"]))
     ELSE pc' = [pc EXCEPT ![p] = "store"] /\ UNCHANGED resp
  /\ UNCHANGED <<req, bodyRead, newProduct, products, nextId, now, nreq, deleted,
                 startedAfter>>

DELETE_id_return(p) ==
  /\ req[p].h = "DELETE_id"
  /\ pc[p] = "store"
  /\ LET deletedProduct == findById(products, req[p].id)
     IN IF deletedProduct = NoDoc
        THEN /\ Reply(p, Response(404, [error |-> "Product not found"]))
             /\ UNCHANGED <<products, deleted>>
        ELSE /\ products' = findByIdAndDelete(products, req[p].id)
             /\ deleted' = deleted \cup {req[p].id}
             /\ Reply(p, Response(200, [message |-> "Product deleted successfully",
                                        deletedProduct |-> deletedProduct]))
  /\ UNCHANGED <<req, bodyRead, newProduct, nextId, now, nreq, startedAfter>>

(***************************************************************************)
(* The response of slot p's request has been sent; the slot is free again. *)
(***************************************************************************)
Deliver(p) ==
  /\ pc[p] = "done"
  /\ pc' = [pc EXCEPT ![p] = "idle"]
  /\ req' = [req EXCEPT ![p] = NoRequest]
  /\ resp' = [resp EXCEPT ![p] = NoResponse]
  /\ bodyRead' = [bodyRead EXCEPT ![p] = FALSE]
  /\ newProduct' = [newProduct EXCEPT ![p] = NoDoc]
  /\ startedAfter' = [startedAfter EXCEPT ![p] = {}]
  /\ log' = [log EXCEPT ![p] = {}]
  /\ UNCHANGED <<products, nextId, now, nreq, deleted>>

(***************************************************************************)
(* The requests of the model.                                              *)
(***************************************************************************)
Iphone == Product(Str("iphone 20"), Str("black iphone 16"), Str("electronics"),
                  Str("https://example.com/i.png"), Num(2000), Str("apple"))
Shoe == Product(Str("shoe"), Str("red shoe"), Str("men"),
                Str("https://example.com/j.png"), Num(1), Str("nike"))

Bodies ==
  { Obj(Iphone), Obj(Shoe),
    Obj([NoFields EXCEPT !["title"] = Str("renamed")]),   \* a partial field set
    Obj([Iphone EXCEPT !["imageUrl"] = Str("")]),
    Obj([Shoe EXCEPT !["price"] = Num(0)]),
    Unparseable }

Creators == {Undef, Str(""), Str("apple"), Str("nike")}

Next ==
  \/ /\ nreq < MaxReqs
     /\ \E p \in Procs :
          \/ GET_products(p)
          \/ \E body \in Bodies : POST_products(p, body)
          \/ \E creator \in Creators : GET_dashboard(p, creator)
          \/ \E id \in PathIds : GET_id(p, id)
          \/ \E id \in PathIds, body \in Bodies : PUT_id(p, id, body)
          \/ \E id \in PathIds : DELETE_id(p, id)
  \/ \E p \in Procs :
       \/ GET_products_find(p) \/ GET_products_return(p)
       \/ POST_products_save(p) \/ POST_products_return(p)
       \/ GET_dashboard_find(p) \/ GET_dashboard_return(p)
       \/ GET_id_findById(p) \/ GET_id_return(p)
       \/ PUT_id_findByIdAndUpdate(p) \/ PUT_id_return(p)
       \/ DELETE_id_findByIdAndDelete(p) \/ DELETE_id_return(p)
       \/ \E c \in StoreErrorCodes : ConnectFail(p, c) \/ StoreFail(p, c)
       \/ Deliver(p)

Spec == Init /\ [][Next]_vars

(***************************************************************************)
(* The schema validator on its whole input domain: one POST whose body is  *)
(* any combination of missing, mistyped, empty, out-of-range and valid     *)
(* values of the six fields.                                               *)
(***************************************************************************)
TitleValues == {Undef, Num(5), Str(""), Str("iphone 20")}
DescriptionValues == {Undef, Str(""), Str("black iphone 16")}
CategoryValues == {Undef, Num(5), Str("toys"), Str("electronics"), Str("men")}
ImageUrlValues == {Undef, Num(5), Str(""), Str("not a url"), Str("https://example.com/i.png")}
PriceValues == {Undef, Str("2000"), Num(0), Num(1), Num(2000)}
CreatorValues == {Undef, Str(""), Str("apple")}

AllBodies ==
  {Unparseable, NonObject} \cup
  {Obj(Product(t, d, c, i, pr, cr)) :
     t \in TitleValues, d \in DescriptionValues, c \in CategoryValues,
     i \in ImageUrlValues, pr \in PriceValues, cr \in CreatorValues}

NextValidate ==
  \/ nreq = 0 /\ \E body \in AllBodies : POST_products(1, body)
  \/ POST_products_save(1)
  \/ POST_products_return(1)
  \/ \E c \in StoreErrorCodes : ConnectFail(1, c) \/ StoreFail(1, c)
  \/ Deliver(1)

SpecValidate == Init /\ [][NextValidate]_vars

(***************************************************************************)
(* Properties.                                                             *)
(***************************************************************************)
SingleResource == {"GET_id", "PUT_id", "DELETE_id"}

\* The connection attempt or the store operation of slot p's request failed:
\* the driver's error is in the log.
Failed(p) == \E e \in log[p] : e.code \in StoreErrorCodes

\* Slot p's handler returns its response in this step.
Completes(p) == pc[p] # "done" /\ pc'[p] = "done"

\* The rules of the Product data model, on the six fields.
SchemaRules(f) ==
  /\ f["title"].t = "str" /\ f["title"].s # ""
  /\ f["description"].t = "str" /\ f["description"].s # ""
  /\ f["category"].t = "str"
  /\ f["category"].s \in {"men", "women", "electronics", "jewelry"}
  /\ f["imageUrl"].t = "str" /\ IsUrl(f["imageUrl"].s)
  /\ f["price"].t = "num" /\ f["price"].n >= 1
  /\ f["creator"].t = "str" /\ f["creator"].s # ""

\* C1: in GET, PUT and DELETE on /products/{id}, a request whose id is
\* malformed starts no connection attempt and no store operation, and its
\* response is 400.
C1_IdCheckedBeforeIO ==
  \A p \in Procs :
    req[p].h \in SingleResource /\ ~isValid(req[p].id) =>
      /\ pc[p] \notin {"connect", "store"}
      /\ pc[p] = "done" => resp[p].status = 400

\* C2: every document of the collection satisfies all the schema rules, and so
\* does every document built for insertion.
C2_StoredProductsValid ==
  /\ \A d \in products : SchemaRules(d.f)
  /\ \A p \in Procs : newProduct[p] # NoDoc => SchemaRules(newProduct[p].f)

C2_Witness ==
  /\ Cardinality(products) >= 1
  /\ \E p \in Procs :
       /\ req[p].h = "PUT_id" /\ pc[p] = "done" /\ resp[p].status = 200
       /\ \E d \in products : d.id = req[p].id /\ d.updatedAt > d.createdAt

\* C3: at most one connection-establishment attempt (a call of
\* mongoose.connect that has not settled) is in flight at a time.
C3_OneConnectInFlight ==
  Cardinality({p \in Procs : pc[p] = "connect"}) <= 1

\* C4: a request whose connection attempt or store operation failed ends with
\* a 500 response, on every endpoint.
C4_FailureGives500 ==
  \A p \in Procs : Failed(p) => pc[p] = "done" /\ resp[p].status = 500

C4_Witness ==
  /\ Failed(1) /\ req[1].h = "POST_products"
  /\ Failed(2) /\ req[2].h = "DELETE_id"

\* C5: two requests on the same endpoint that end with 500 have the same
\* response body, whatever the underlying errors.
C5_Generic500Body ==
  \A p, q \in Procs :
    /\ pc[p] = "done" /\ resp[p].status = 500
    /\ pc[q] = "done" /\ resp[q].status = 500
    /\ req[p].h = req[q].h
    => resp[p].body = resp[q].body

C7_DeletedAlways404 ==
  \A p \in Procs :
    pc[p] = "done" /\ req[p].h \in SingleResource /\ req[p].id \in startedAfter[p]
      => resp[p].status = 404

\* C7 amended: once a DELETE of i has returned 200, no document of the
\* collection has identifier i; a request on /products/{i} that starts
\* afterwards never ends with 200: it ends with 404, or with 400 when it is a
\* PUT whose body fails schema validation, or with 500 when the body of the
\* PUT is not JSON or the connection or the store failed; and no list result
\* of a request that starts afterwards contains the document.
C7_DeletedStaysGone ==
  /\ \A i \in deleted : \A d \in products : d.id # i
  /\ \A p \in Procs :
       pc[p] = "done" /\ req[p].h \in SingleResource /\ req[p].id \in startedAfter[p] =>
         /\ resp[p].status \in {400, 404, 500}
         /\ resp[p].status = 400 =>
              req[p].h = "PUT_id" /\ req[p].body.kind = "object" /\ ~SchemaRules(req[p].body.f)
         /\ resp[p].status = 500 => Failed(p) \/ req[p].body.kind = "unparseable"
  /\ \A p \in Procs :
       pc[p] = "done" /\ req[p].h \in {"GET_products", "GET_dashboard"}
       /\ resp[p].status = 200 =>
         \A d \in resp[p].body.products : d.id \notin startedAfter[p]

C7_Witness ==
  \E p \in Procs :
    /\ pc[p] = "done" /\ req[p].h = "GET_id" /\ req[p].id \in startedAfter[p]
    /\ resp[p].status = 404

\* A body that supplies some of the six fields, not all, each with a valid value.
PartialBody(body) ==
  /\ body.kind = "object"
  /\ \E k \in FieldSet : body.f[k] # Undef
  /\ \E k \in FieldSet : body.f[k] = Undef
  /\ \E full \in {Iphone, Shoe} :
       SchemaRules([k \in FieldSet |-> IF body.f[k] = Undef THEN full[k] ELSE body.f[k]])

\* C8 as stated: a PUT on an existing product whose body supplies only a
\* subset of the fields succeeds.
C8_PartialUpdateSucceeds ==
  \A p \in Procs :
    /\ pc[p] = "done" /\ req[p].h = "PUT_id" /\ PartialBody(req[p].body)
    /\ \E d \in products : d.id = req[p].id
    => resp[p].status = 200

\* C8 amended: a PUT on a well-formed identifier whose body omits any of the
\* six fields ends with 400 and changes nothing.  A PUT that ends with 200
\* supplied all six fields: the document with that identifier takes the six
\* values of the body and a new updatedAt; its identifier, its createdAt and
\* every other document are unchanged.  A PUT that does not end with 200
\* leaves the collection unchanged.
C8_FullUpdateOnly ==
  [][\A p \in Procs :
       Completes(p) /\ req'[p].h = "PUT_id" =>
         /\ isValid(req'[p].id) /\ req'[p].body.kind = "object"
            /\ (\E k \in FieldSet : req'[p].body.f[k] = Undef)
            => resp'[p].status = 400
         /\ IF resp'[p].status = 200
            THEN /\ \A k \in FieldSet : req'[p].body.f[k] # Undef
                 /\ \E d \in products :
                      /\ d.id = req'[p].id
                      /\ products' = (products \ {d}) \cup
                           {[id |-> d.id, f |-> req'[p].body.f,
                             createdAt |-> d.createdAt, updatedAt |-> now']}
            ELSE products' = products]_vars

C8_Witness ==
  /\ Cardinality(products) >= 2
  /\ \E p \in Procs :
       /\ pc[p] = "done" /\ req[p].h = "PUT_id" /\ resp[p].status = 200
       /\ \E d \in products :
            d.id = req[p].id /\ d.f = Shoe /\ d.updatedAt > d.createdAt

\* C9: a POST that ends with 201 adds exactly one document; its identifier is
\* that of no document the collection held; its six fields are those of the
\* request body, and it is what a lookup by that identifier finds; the
\* documents the collection held are unchanged.  A GET by identifier that ends
\* with 200 returns the document the collection holds under that identifier.
C9_CreateReadRoundTrip ==
  [][\A p \in Procs :
       /\ Completes(p) /\ req'[p].h = "POST_products" /\ resp'[p].status = 201 =>
            \E d \in products' :
              /\ d \notin products
              /\ products' = products \cup {d}
              /\ \A e \in products : e.id # d.id
              /\ \A k \in FieldSet : d.f[k] = req'[p].body.f[k]
              /\ findById(products', d.id) = d
       /\ Completes(p) /\ req'[p].h = "GET_id" /\ resp'[p].status = 200 =>
            /\ resp'[p].body.product \in products
            /\ resp'[p].body.product.id = req'[p].id]_vars

C9_Witness ==
  /\ Cardinality(products) >= 2
  /\ \E p, q \in Procs :
       /\ pc[p] = "done" /\ req[p].h = "POST_products" /\ resp[p].status = 201
       /\ pc[q] = "done" /\ req[q].h = "GET_id" /\ resp[q].status = 200
       /\ resp[q].body.product.f = req[p].body.f

\* A field of a body is missing or invalid.
FieldBad(body, k) ==
  ~ \E full \in {Iphone, Shoe} : SchemaRules([full EXCEPT ![k] = body.f[k]])

\* The number of field errors of a 400 response that name field k.
ErrorsNaming(errors, k) == Cardinality({i \in 1..Len(errors) : errors[i].field = k})

\* C10: the validator accepts a payload if and only if no field is missing or
\* invalid, and a rejected payload gets exactly one field error for each
\* missing or invalid field and none for the others.
C10_OneErrorPerBadField ==
  \A p \in Procs :
    pc[p] # "idle" /\ req[p].h = "POST_products" /\ req[p].body.kind = "object" =>
      LET bad == {k \in FieldSet : FieldBad(req[p].body, k)}
      IN IF bad = {}
         THEN resp[p].status # 400
         ELSE /\ pc[p] = "done" /\ resp[p].status = 400
              /\ \A k \in FieldSet :
                   ErrorsNaming(resp[p].body.errors, k) = IF k \in bad THEN 1 ELSE 0

\* C11: a PUT on /products/{id} whose id is malformed ends, for every body
\* (valid, schema-invalid or not JSON), in the step that receives it, with the
\* 400 response "Invalid ID format"; the body is not read, nothing is logged,
\* no connection attempt or store operation is started and the collection is
\* unchanged.
C11_MalformedIdPutIgnoresBody ==
  /\ [](\A p \in Procs :
          req[p].h = "PUT_id" /\ req[p].id \notin ObjectIds =>
            /\ pc[p] = "done"
            /\ resp[p] = Response(400, [error |-> "Invalid ID format"])
            /\ ~bodyRead[p]
            /\ log[p] = {})
  /\ [][\A p \in Procs :
          req'[p].h = "PUT_id" /\ req'[p].id \notin ObjectIds /\ req'[p] # req[p] =>
            /\ pc[p] = "idle" /\ pc'[p] = "done"
            /\ products' = products]_vars

C11_Witness ==
  /\ products # {}
  /\ pc[1] = "done" /\ req[1].h = "PUT_id" /\ req[1].id = "not-an-id"
  /\ req[1].body = Obj(Shoe) /\ resp[1].status = 400
  /\ pc[2] = "done" /\ req[2].h = "PUT_id" /\ req[2].id = ""
  /\ req[2].body = Unparseable /\ resp[2].status = 400

====
